---- MODULE Spec2Model ----
(***************************************************************************)
(* Model of the toy payments engine (src/src/main.rs).                     *)
(*                                                                         *)
(* The engine reads a CSV stream row by row, keeps a HashMap from client   *)
(* id to Account, applies every decodable row to the account of its        *)
(* client unless that account is locked, and finally prints one line per   *)
(* account.                                                                *)
(*                                                                         *)
(* Amounts are f64 in the source.  Here they are integers counting units   *)
(* of 10^-4 (the precision of the report); on such inputs of small         *)
(* magnitude the f64 operations +, - and >= are exact, so the integer      *)
(* operations below are what the code computes.  Rounding of amounts that  *)
(* are not exactly representable, infinities and NaN are outside the       *)
(* model.                                                                  *)
(***************************************************************************)
EXTENDS Integers, Sequences, FiniteSets, TLC

\* ---------------------------------------------------------------- bounds
MaxRecords == 4
MaxClient == 2
MaxTx == 2
MaxAmount == 1

Clients == 1..MaxClient
TxIds == 1..MaxTx
\* f64 parses negative decimals as well, so a row may carry one
Amounts == {-1} \cup (0..MaxAmount)

\* ------------------------------------------------------------ data types
TransactionType == {"deposit", "withdrawal", "dispute", "resolve", "chargeback"}

\* Option<f64>: None is <<>>, Some(a) is <<a>>
None == << >>
Some(a) == << a >>
IsSome(o) == Len(o) = 1
Unwrap(o) == o[1]

OffChainTransaction ==
    [transaction_type : TransactionType,
     client : Clients,
     id : TxIds,
     amount : {None} \cup {Some(a) : a \in Amounts}]

NewAccount ==
    [available |-> 0, held |-> 0, locked |-> FALSE, transactions |-> << >>]

\* HashMap helpers: a map is a function whose DOMAIN is its key set
contains_key(m, k) == k \in DOMAIN m
insert(m, k, v) == [x \in (DOMAIN m) \cup {k} |-> IF x = k THEN v ELSE m[x]]

\* ------------------------------------------------- process_transaction
\* mutant: a deposit does not replace an entry the log already holds
Deposit_KeepsEntry(account, transaction) ==
    IF IsSome(transaction.amount)
    THEN [account EXCEPT
            !.available = @ + Unwrap(transaction.amount),
            !.transactions =
                IF contains_key(@, transaction.id) THEN @
                ELSE insert(@, transaction.id, <<Unwrap(transaction.amount), FALSE>>)]
    ELSE account

Deposit(account, transaction) ==
    IF IsSome(transaction.amount)
    THEN [account EXCEPT
            !.available = @ + Unwrap(transaction.amount),
            !.transactions = insert(@, transaction.id,
                                    <<Unwrap(transaction.amount), FALSE>>)]
    ELSE account

\* mutant: the funds check is missing
Withdrawal_NoCheck(account, transaction) ==
    IF IsSome(transaction.amount)
    THEN [account EXCEPT !.available = @ - Unwrap(transaction.amount)]
    ELSE account

\* mutant: an applied withdrawal is entered into the log like a deposit
Withdrawal_Logged(account, transaction) ==
    IF IsSome(transaction.amount)
    THEN IF account.available >= Unwrap(transaction.amount)
         THEN [account EXCEPT
                 !.available = @ - Unwrap(transaction.amount),
                 !.transactions = insert(@, transaction.id,
                                         <<Unwrap(transaction.amount), FALSE>>)]
         ELSE account
    ELSE account

Withdrawal(account, transaction) ==
    IF IsSome(transaction.amount)
    THEN IF account.available >= Unwrap(transaction.amount)
         THEN [account EXCEPT !.available = @ - Unwrap(transaction.amount)]
         ELSE account
    ELSE account

\* mutant: the disputed flag is not tested
Dispute_NoGuard(account, transaction) ==
    IF contains_key(account.transactions, transaction.id)
    THEN LET entry == account.transactions[transaction.id] IN
         [account EXCEPT
            !.available = @ - entry[1],
            !.held = @ + entry[1],
            !.transactions = insert(@, transaction.id, <<entry[1], TRUE>>)]
    ELSE account

\* mutant: a dispute is refused when available does not cover the amount
Dispute_FundsCheck(account, transaction) ==
    IF contains_key(account.transactions, transaction.id)
    THEN LET entry == account.transactions[transaction.id] IN
         IF ~entry[2] /\ account.available >= entry[1]
         THEN [account EXCEPT
                 !.available = @ - entry[1],
                 !.held = @ + entry[1],
                 !.transactions = insert(@, transaction.id, <<entry[1], TRUE>>)]
         ELSE account
    ELSE account

Dispute(account, transaction) ==
    IF contains_key(account.transactions, transaction.id)
    THEN LET entry == account.transactions[transaction.id] IN
         IF ~entry[2]
         THEN [account EXCEPT
                 !.available = @ - entry[1],
                 !.held = @ + entry[1],
                 !.transactions = insert(@, transaction.id, <<entry[1], TRUE>>)]
         ELSE account
    ELSE account

\* mutant: the resolved amount is credited but never taken out of held
Resolve_KeepsHeld(account, transaction) ==
    IF contains_key(account.transactions, transaction.id)
    THEN LET entry == account.transactions[transaction.id] IN
         IF entry[2]
         THEN [account EXCEPT
                 !.available = @ + entry[1],
                 !.transactions = insert(@, transaction.id, <<entry[1], FALSE>>)]
         ELSE account
    ELSE account

\* mutant: the entry stays flagged as disputed
Resolve_KeepsFlag(account, transaction) ==
    IF contains_key(account.transactions, transaction.id)
    THEN LET entry == account.transactions[transaction.id] IN
         IF entry[2]
         THEN [account EXCEPT
                 !.available = @ + entry[1],
                 !.held = @ - entry[1]]
         ELSE account
    ELSE account

\* mutant: the disputed flag is not tested
Resolve_NoGuard(account, transaction) ==
    IF contains_key(account.transactions, transaction.id)
    THEN LET entry == account.transactions[transaction.id] IN
         [account EXCEPT
            !.available = @ + entry[1],
            !.held = @ - entry[1],
            !.transactions = insert(@, transaction.id, <<entry[1], FALSE>>)]
    ELSE account

Resolve(account, transaction) ==
    IF contains_key(account.transactions, transaction.id)
    THEN LET entry == account.transactions[transaction.id] IN
         IF entry[2]
         THEN [account EXCEPT
                 !.available = @ + entry[1],
                 !.held = @ - entry[1],
                 !.transactions = insert(@, transaction.id, <<entry[1], FALSE>>)]
         ELSE account
    ELSE account

\* mutant: the disputed flag is not tested
Chargeback_NoGuard(account, transaction) ==
    IF contains_key(account.transactions, transaction.id)
    THEN LET entry == account.transactions[transaction.id] IN
         [account EXCEPT
            !.held = @ - entry[1],
            !.locked = TRUE,
            !.transactions = insert(@, transaction.id, <<entry[1], FALSE>>)]
    ELSE account

\* mutant: the charged-back amount is taken from available, not from held
Chargeback_DebitsAvailable(account, transaction) ==
    IF contains_key(account.transactions, transaction.id)
    THEN LET entry == account.transactions[transaction.id] IN
         IF entry[2]
         THEN [account EXCEPT
                 !.available = @ - entry[1],
                 !.locked = TRUE,
                 !.transactions = insert(@, transaction.id, <<entry[1], FALSE>>)]
         ELSE account
    ELSE account

\* mutant: the entry stays flagged as disputed
Chargeback_KeepsFlag(account, transaction) ==
    IF contains_key(account.transactions, transaction.id)
    THEN LET entry == account.transactions[transaction.id] IN
         IF entry[2]
         THEN [account EXCEPT
                 !.held = @ - entry[1],
                 !.locked = TRUE]
         ELSE account
    ELSE account

\* mutant: the account is not locked
Chargeback_NoLock(account, transaction) ==
    IF contains_key(account.transactions, transaction.id)
    THEN LET entry == account.transactions[transaction.id] IN
         IF entry[2]
         THEN [account EXCEPT
                 !.held = @ - entry[1],
                 !.transactions = insert(@, transaction.id, <<entry[1], FALSE>>)]
         ELSE account
    ELSE account

Chargeback(account, transaction) ==
    IF contains_key(account.transactions, transaction.id)
    THEN LET entry == account.transactions[transaction.id] IN
         IF entry[2]
         THEN [account EXCEPT
                 !.held = @ - entry[1],
                 !.locked = TRUE,
                 !.transactions = insert(@, transaction.id, <<entry[1], FALSE>>)]
         ELSE account
    ELSE account

process_transaction(account, transaction) ==
    CASE transaction.transaction_type = "deposit" -> Deposit(account, transaction)
      [] transaction.transaction_type = "withdrawal" -> Withdrawal(account, transaction)
      [] transaction.transaction_type = "dispute" -> Dispute(account, transaction)
      [] transaction.transaction_type = "resolve" -> Resolve(account, transaction)
      [] transaction.transaction_type = "chargeback" -> Chargeback(account, transaction)

\* ----------------------------------------- process_transaction_file loop
\* the account table after "check if account exists, if not, it adds a new one"
EnsureAccount(accts, client) ==
    IF ~contains_key(accts, client) THEN insert(accts, client, NewAccount) ELSE accts

\* "process transaction if not locked"
\* mutant: the lock is not tested
LockGate_Open(account, transaction) == process_transaction(account, transaction)

LockGate(account, transaction) ==
    IF ~account.locked THEN process_transaction(account, transaction) ELSE account

\* mutant: an account is created only by a deposit
ApplyRecord_CreateOnDeposit(accts, transaction) ==
    IF contains_key(accts, transaction.client)
       \/ transaction.transaction_type = "deposit"
    THEN LET ensured == EnsureAccount(accts, transaction.client) IN
         [ensured EXCEPT ![transaction.client] = LockGate(@, transaction)]
    ELSE accts

\* mutant: a dispute, resolve or chargeback is applied to every account whose
\* log knows the tx id, whoever the row names
ApplyRecord_AnyOwner(accts, transaction) ==
    LET ensured == EnsureAccount(accts, transaction.client) IN
    [c \in DOMAIN ensured |->
        IF \/ c = transaction.client
           \/ /\ transaction.transaction_type \in {"dispute", "resolve", "chargeback"}
              /\ contains_key(ensured[c].transactions, transaction.id)
        THEN LockGate(ensured[c], transaction)
        ELSE ensured[c]]

\* body of the loop for a row that deserialized (Ok branch)
ApplyRecord(accts, transaction) ==
    LET ensured == EnsureAccount(accts, transaction.client) IN
    [ensured EXCEPT ![transaction.client] = LockGate(@, transaction)]

\* mutant: a row that fails to decode is replaced by a default record (client 0)
SkipInvalid_Default(accts) == EnsureAccount(accts, 0)

\* body of the loop for a row that did not deserialize (Err branch): only eprintln!
SkipInvalid(accts) == accts

\* --------------------------------------------------------------- report
Abs(x) == IF x < 0 THEN 0 - x ELSE x

\* "{:.4}" of an amount counted in units of 10^-4: sign, integer part, 4 digits
Scale == 10000
Fmt4(x) == <<x < 0, Abs(x) \div Scale, Abs(x) % Scale>>

\* mutant: the total column repeats available
Row_TotalIsAvailable(client, data) ==
    <<client, Fmt4(data.available), Fmt4(data.held), Fmt4(data.available), data.locked>>

\* one output line "{},{:.4},{:.4},{:.4},{}"
Row(client, data) ==
    LET total == data.held + data.available IN
    <<client, Fmt4(data.available), Fmt4(data.held), Fmt4(total), data.locked>>

\* the orders in which accounts.keys() can come out of the HashMap
KeyOrders(accts) ==
    {ks \in [1..Cardinality(DOMAIN accts) -> DOMAIN accts] :
        \A i, j \in DOMAIN ks : i # j => ks[i] # ks[j]}

\* ------------------------------------------------------------------ state
VARIABLES
    accounts,       \* HashMap<u16, Account> of process_transaction_file
    pc,             \* "loop" while rows are read, "report", then "done"
    count,          \* rows read so far (bounded by MaxRecords)
    output,         \* the lines after the header of the returned String
    last,           \* the item the loop read last: << >> before the first row,
                    \* <<"Ok", transaction>> or <<"Err">>
    seen,           \* history: clients named by a row that deserialized
    ledger,         \* history: per client, applied deposits - applied
                    \*          withdrawals - applied chargebacks (amounts)
    chargebacks,    \* history: per client, number of applied chargebacks
    orphaned,       \* history: per client, sum of the amounts of the entries
                    \*          that were under dispute when a deposit replaced them
    cleanAccounts,  \* history: the table of a run over the same rows without
                    \*          the rows that failed to deserialize
    ownRows         \* history: per client, the account of a run over the rows
                    \*          of that client alone, in their order

vars == <<accounts, pc, count, output, last, seen, ledger, chargebacks, orphaned,
          cleanAccounts, ownRows>>

Init ==
    /\ accounts = << >>
    /\ pc = "loop"
    /\ count = 0
    /\ output = << >>
    /\ last = << >>
    /\ seen = {}
    /\ ledger = [c \in Clients |-> 0]
    /\ chargebacks = [c \in Clients |-> 0]
    /\ orphaned = [c \in Clients |-> 0]
    /\ cleanAccounts = << >>
    /\ ownRows = << >>

\* when a row that deserialized is "successfully applied": the lock gate and
\* the preconditions of its arm, read off the account the row finds
DepositApplied(account, t) ==
    /\ ~account.locked
    /\ t.transaction_type = "deposit"
    /\ IsSome(t.amount)

WithdrawalApplied(account, t) ==
    /\ ~account.locked
    /\ t.transaction_type = "withdrawal"
    /\ IsSome(t.amount)
    /\ account.available >= Unwrap(t.amount)

Known(account, id) == contains_key(account.transactions, id)

OpenDispute(account, id) == Known(account, id) /\ account.transactions[id][2]

DisputeApplied(account, t) ==
    /\ ~account.locked
    /\ t.transaction_type = "dispute"
    /\ Known(account, t.id)
    /\ ~OpenDispute(account, t.id)

ResolveApplied(account, t) ==
    /\ ~account.locked
    /\ t.transaction_type = "resolve"
    /\ OpenDispute(account, t.id)

ChargebackApplied(account, t) ==
    /\ ~account.locked
    /\ t.transaction_type = "chargeback"
    /\ OpenDispute(account, t.id)

\* the signed amount an applied row contributes to the ledger of its client
LedgerDelta(account, t) ==
    IF DepositApplied(account, t) THEN Unwrap(t.amount)
    ELSE IF WithdrawalApplied(account, t) THEN 0 - Unwrap(t.amount)
    ELSE IF ChargebackApplied(account, t) THEN 0 - account.transactions[t.id][1]
    ELSE 0

\* for item in iter_reader, Ok(transaction)
ReadOk(t) ==
    /\ pc = "loop"
    /\ count < MaxRecords
    /\ LET found == EnsureAccount(accounts, t.client)[t.client] IN
       /\ ledger' = [ledger EXCEPT ![t.client] = @ + LedgerDelta(found, t)]
       /\ chargebacks' = [chargebacks EXCEPT ![t.client] =
             IF ChargebackApplied(found, t) THEN @ + 1 ELSE @]
       /\ orphaned' = [orphaned EXCEPT ![t.client] =
             IF DepositApplied(found, t) /\ OpenDispute(found, t.id)
             THEN @ + found.transactions[t.id][1] ELSE @]
    /\ accounts' = ApplyRecord(accounts, t)
    /\ cleanAccounts' = ApplyRecord(cleanAccounts, t)
    /\ ownRows' = insert(ownRows, t.client,
                         LockGate(IF contains_key(ownRows, t.client)
                                  THEN ownRows[t.client] ELSE NewAccount, t))
    /\ seen' = seen \cup {t.client}
    /\ last' = <<"Ok", t>>
    /\ count' = count + 1
    /\ UNCHANGED <<pc, output>>

\* mutant: a row that fails to decode ends the run without a report
ReadErr_Abort ==
    /\ pc = "loop"
    /\ count < MaxRecords
    /\ pc' = "aborted"
    /\ last' = <<"Err">>
    /\ count' = count + 1
    /\ UNCHANGED <<accounts, output, seen, ledger, chargebacks, orphaned,
                   cleanAccounts, ownRows>>

\* for item in iter_reader, Err(_): the row is logged and skipped
ReadErr ==
    /\ pc = "loop"
    /\ count < MaxRecords
    /\ accounts' = SkipInvalid(accounts)
    /\ last' = <<"Err">>
    /\ count' = count + 1
    /\ UNCHANGED <<pc, output, seen, ledger, chargebacks, orphaned,
                   cleanAccounts, ownRows>>

\* the iterator is exhausted
EndOfStream ==
    /\ pc = "loop"
    /\ pc' = "report"
    /\ UNCHANGED <<accounts, count, output, last, seen, ledger, chargebacks, orphaned,
                   cleanAccounts, ownRows>>

\* keys are collected and one line per key is appended to the output
Report ==
    /\ pc = "report"
    /\ \E keys \in KeyOrders(accounts) :
          output' = [i \in DOMAIN keys |-> Row(keys[i], accounts[keys[i]])]
    /\ pc' = "done"
    /\ UNCHANGED <<accounts, count, last, seen, ledger, chargebacks, orphaned,
                   cleanAccounts, ownRows>>

Next ==
    \/ \E t \in OffChainTransaction : ReadOk(t)
    \/ ReadErr
    \/ EndOfStream
    \/ Report

Spec == Init /\ [][Next]_vars

\* the runs over streams in which no row carries a negative amount
NonNegRows == {t \in OffChainTransaction : IsSome(t.amount) => Unwrap(t.amount) >= 0}

NextNonNeg ==
    \/ \E t \in NonNegRows : ReadOk(t)
    \/ ReadErr
    \/ EndOfStream
    \/ Report

SpecNonNeg == Init /\ [][NextNonNeg]_vars

\* the loop and the report are straight-line code of one thread: a step that
\* can be taken is taken
FairSpec == Spec /\ WF_vars(Next)

TypeOK ==
    /\ DOMAIN accounts \subseteq Clients
    /\ pc \in {"loop", "report", "done"}
    /\ count \in 0..MaxRecords
    /\ seen \subseteq Clients


\* ====================================================================
\* Properties
\* ====================================================================
LastOk == Len(last) = 2
LastTx == last[2]
LastIs(kind) == LastOk /\ LastTx.transaction_type = kind

\* rows of one kind
RowsOf(kinds) == {t \in OffChainTransaction : t.transaction_type \in kinds}

\* rows are applied only while the loop runs
Reading == pc = "loop"

\* the account a row finds, once the table holds an account for its client
Found(t) == EnsureAccount(accounts, t.client)[t.client]

Total(account) == account.available + account.held

C2_LockFreezes ==
    [][\A c \in DOMAIN accounts :
          (chargebacks[c] > 0 \/ accounts[c].locked) =>
              /\ accounts[c].locked
              /\ c \in DOMAIN accounts'
              /\ accounts'[c] = accounts[c]]_vars

\* a deposit with an amount arrived for a client after its chargeback
C2_Witness ==
    /\ LastIs("deposit")
    /\ IsSome(LastTx.amount)
    /\ Unwrap(LastTx.amount) = 1
    /\ chargebacks[LastTx.client] = 1
    /\ accounts[LastTx.client].locked

\* C3: a Dispute applied twice in a row leaves the table as one application
\* does, and a Dispute of an entry that is under dispute changes nothing.
C3_DisputeIdempotent ==
    Reading => \A t \in RowsOf({"dispute"}) :
        /\ ApplyRecord(ApplyRecord(accounts, t), t) = ApplyRecord(accounts, t)
        /\ (t.client \in DOMAIN accounts /\ OpenDispute(accounts[t.client], t.id))
              => ApplyRecord(accounts, t) = accounts

\* the last row was a Dispute that moved a non-zero amount; the account is open
C3_Witness ==
    /\ LastIs("dispute")
    /\ ~accounts[LastTx.client].locked
    /\ OpenDispute(accounts[LastTx.client], LastTx.id)
    /\ accounts[LastTx.client].transactions[LastTx.id][1] = 1
    /\ accounts[LastTx.client].held = 1

\* C4: a Resolve or a Chargeback of a tx id that is not in the log of the
\* account, or whose entry is not under dispute, changes nothing in the
\* account; in particular it does not lock it.
C4_NeedsOpenDispute ==
    Reading => \A t \in RowsOf({"resolve", "chargeback"}) :
        ~OpenDispute(Found(t), t.id) =>
            ApplyRecord(accounts, t) = EnsureAccount(accounts, t.client)

\* a Chargeback arrived for a known deposit that was never disputed
C4_Witness ==
    /\ LastIs("chargeback")
    /\ Known(accounts[LastTx.client], LastTx.id)
    /\ ~OpenDispute(accounts[LastTx.client], LastTx.id)
    /\ accounts[LastTx.client].held = 0
    /\ accounts[LastTx.client].available = 1
    /\ chargebacks[LastTx.client] = 0
    /\ ~accounts[LastTx.client].locked

\* C5: a Withdrawal without amount, or of more than available, changes
\* nothing in the account; one that is applied takes exactly its amount from
\* available and nothing else; no Withdrawal takes available from a value
\* >= 0 to a value < 0.
C5_Withdrawal ==
    Reading => \A t \in RowsOf({"withdrawal"}) :
        LET before == Found(t)
            after == ApplyRecord(accounts, t)[t.client]
        IN  /\ (~IsSome(t.amount) \/ Unwrap(t.amount) > before.available)
                => after = before
            /\ WithdrawalApplied(before, t)
                => after = [before EXCEPT !.available = @ - Unwrap(t.amount)]
            /\ after.held = before.held
            /\ after.locked = before.locked
            /\ after.transactions = before.transactions
            /\ before.available >= 0 => after.available >= 0

\* the last row was a Withdrawal of more than the account holds
C5_Witness ==
    /\ LastIs("withdrawal")
    /\ IsSome(LastTx.amount)
    /\ ~accounts[LastTx.client].locked
    /\ accounts[LastTx.client].available = 0
    /\ Unwrap(LastTx.amount) = 1
    /\ ledger[LastTx.client] = 0
    /\ Known(accounts[LastTx.client], 1)

TableRow(account) ==
    [available |-> account.available, held |-> account.held, locked |-> account.locked]

\* the final account table: the clients with their available, held and locked
Table(accts) == [c \in DOMAIN accts |-> TableRow(accts[c])]

\* the client ids of the lines of the report
OutputClients == {output[i][1] : i \in DOMAIN output}

\* C6: a row that deserialized and names a client without account gives the
\* table a zeroed, unlocked account with an empty log for it before the row
\* is applied, whatever the row's kind and effect; every client named by such
\* a row keeps an account until the end and has a line in the report.
C6_AutoCreate ==
    /\ DOMAIN accounts = seen
    /\ Reading =>
          \A t \in OffChainTransaction :
              ~contains_key(accounts, t.client) =>
                  /\ EnsureAccount(accounts, t.client)[t.client] = NewAccount
                  /\ DOMAIN ApplyRecord(accounts, t) = DOMAIN accounts \cup {t.client}
                  /\ ApplyRecord(accounts, t)[t.client]
                        = process_transaction(NewAccount, t)
    /\ pc = "done" => OutputClients = seen

\* the only row of the stream was a Dispute of an unknown tx id, and the
\* report has the line of its client
C6_Witness ==
    /\ pc = "done"
    /\ count = 1
    /\ LastIs("dispute")
    /\ seen = {LastTx.client}
    /\ accounts[LastTx.client] = NewAccount
    /\ Len(output) = 1
    /\ output[1] = Row(LastTx.client, NewAccount)

\* C7: the account table of a stream equals, after every prefix and at the
\* end, the table of the same stream without its undecodable rows; such a row
\* creates no account and changes none.
C7_MalformedRows ==
    /\ Table(accounts) = Table(cleanAccounts)
    /\ Reading => SkipInvalid(accounts) = accounts

\* an undecodable row was read after rows that changed an account, and the
\* run has ended
C7_Witness ==
    /\ pc = "done"
    /\ last = <<"Err">>
    /\ \E c \in DOMAIN accounts : accounts[c].available = 1 /\ accounts[c].held = 1

\* what a Dispute of the entry of id does to an account when it is applied
Disputed(account, id) ==
    LET amount == account.transactions[id][1] IN
    [account EXCEPT
        !.available = @ - amount,
        !.held = @ + amount,
        !.transactions = insert(@, id, <<amount, TRUE>>)]

\* C8 as stated: a Dispute of a known entry that is not under dispute is
\* always applied, moving the entry's amount from available to held.
C8_DisputeAlwaysApplied ==
    Reading => \A t \in RowsOf({"dispute"}) :
        (Known(Found(t), t.id) /\ ~OpenDispute(Found(t), t.id)) =>
            ApplyRecord(accounts, t)[t.client] = Disputed(Found(t), t.id)

\* C8 (amended): on an account that is not locked, a Dispute of a known entry
\* that is not under dispute is applied whatever available is, moving the
\* entry's amount from available to held.
C8_DisputeIgnoresFunds ==
    Reading => \A t \in RowsOf({"dispute"}) :
        (~Found(t).locked /\ Known(Found(t), t.id) /\ ~OpenDispute(Found(t), t.id)) =>
            ApplyRecord(accounts, t)[t.client] = Disputed(Found(t), t.id)

\* a deposit of 1 was withdrawn, then disputed and charged back: the account
\* is locked with available = -1, held = 0
C8_Witness ==
    /\ LastIs("chargeback")
    /\ LET a == accounts[LastTx.client] IN
       /\ a.locked
       /\ DOMAIN a.transactions = {LastTx.id}
       /\ a.transactions[LastTx.id] = <<1, FALSE>>
       /\ a.available = -1
       /\ a.held = 0
       /\ Total(a) < 0

\* every account but the one of the row's client is left as it is
OthersUnchanged(t) ==
    /\ DOMAIN ApplyRecord(accounts, t) = DOMAIN accounts \cup {t.client}
    /\ \A c \in DOMAIN accounts \ {t.client} : ApplyRecord(accounts, t)[c] = accounts[c]

\* C9 as stated: a row changes no account but the one of its client, and a
\* Dispute, Resolve or Chargeback under one client of a tx id that another
\* client deposited changes no account at all.
C9_IsolationAsStated ==
    Reading =>
        /\ \A t \in OffChainTransaction : OthersUnchanged(t)
        /\ \A t \in RowsOf({"dispute", "resolve", "chargeback"}) :
              (\E a \in DOMAIN accounts \ {t.client} : Known(accounts[a], t.id))
                  => ApplyRecord(accounts, t) = EnsureAccount(accounts, t.client)

\* C9 (amended): a row changes no account but the one of its client, and a
\* Dispute, Resolve or Chargeback under one client of a tx id that another
\* client deposited, and that the client itself did not deposit, changes no
\* account at all.
C9_Isolation ==
    Reading =>
        /\ \A t \in OffChainTransaction : OthersUnchanged(t)
        /\ \A t \in RowsOf({"dispute", "resolve", "chargeback"}) :
              (/\ \E a \in DOMAIN accounts \ {t.client} : Known(accounts[a], t.id)
               /\ ~Known(Found(t), t.id))
                  => ApplyRecord(accounts, t) = EnsureAccount(accounts, t.client)

\* the last row was a Dispute under a new client of a deposit of another one
C9_Witness ==
    /\ LastIs("dispute")
    /\ accounts[LastTx.client] = NewAccount
    /\ \E a \in DOMAIN accounts \ {LastTx.client} :
          /\ Known(accounts[a], LastTx.id)
          /\ accounts[a].transactions[LastTx.id] = <<1, FALSE>>
          /\ accounts[a].available = 1
          /\ accounts[a].held = 0

\* whether the row t is applied to the account it finds
Applied(account, t) ==
    \/ DepositApplied(account, t)
    \/ WithdrawalApplied(account, t)
    \/ DisputeApplied(account, t)
    \/ ResolveApplied(account, t)
    \/ ChargebackApplied(account, t)

\* C10: held changes only under an applied Dispute, Resolve or Chargeback,
\* available only under an applied Deposit, Withdrawal, Dispute or Resolve,
\* and locked only under an applied Chargeback.
C10_PerKindFrame ==
    Reading => \A t \in OffChainTransaction :
        LET before == Found(t)
            after == ApplyRecord(accounts, t)[t.client]
        IN  /\ after.held # before.held =>
                /\ t.transaction_type \in {"dispute", "resolve", "chargeback"}
                /\ Applied(before, t)
            /\ after.available # before.available =>
                /\ t.transaction_type \in {"deposit", "withdrawal", "dispute", "resolve"}
                /\ Applied(before, t)
            /\ after.locked # before.locked =>
                /\ t.transaction_type = "chargeback"
                /\ Applied(before, t)

\* a Chargeback was applied to an account with held = 1 and available = 1
C10_Witness ==
    /\ LastIs("chargeback")
    /\ chargebacks[LastTx.client] = 1
    /\ accounts[LastTx.client].locked
    /\ accounts[LastTx.client].available = 1
    /\ accounts[LastTx.client].held = 0
    /\ accounts[LastTx.client].transactions[LastTx.id] = <<1, FALSE>>


\* the step reads a row that deserialized
ReadsOk == count' = count + 1 /\ Len(last') = 2

\* a row of the given kind for the client and tx id of the row t
Follow(kind, t) ==
    [transaction_type |-> kind, client |-> t.client, id |-> t.id, amount |-> None]

\* C11 as stated: a Dispute that names the tx id of a Withdrawal row (here the
\* row read just before it, for the same client) changes no account.
C11_WithdrawalDisputeNoOp ==
    [][(/\ LastIs("withdrawal")
        /\ ReadsOk
        /\ last'[2].transaction_type = "dispute"
        /\ last'[2].client = LastTx.client
        /\ last'[2].id = LastTx.id)
          => accounts' = accounts]_vars

\* C11 (amended): a Withdrawal, applied or not, leaves the transaction log as
\* it is, and a Dispute that names the tx id of a Withdrawal row is a no-op
\* unless the log of the client holds a Deposit under the same tx id.
C11_WithdrawalsNotLogged ==
    Reading => \A w \in RowsOf({"withdrawal"}) :
        /\ ApplyRecord(accounts, w)[w.client].transactions = Found(w).transactions
        /\ ~Known(Found(w), w.id) =>
              ApplyRecord(ApplyRecord(accounts, w), Follow("dispute", w))
                  = ApplyRecord(accounts, w)

\* a deposit of 1, a withdrawal of 1 and a Dispute of a tx id that the log
\* does not hold were read, in this order
C11_Witness ==
    /\ count = 3
    /\ LastIs("dispute")
    /\ LET a == accounts[LastTx.client] IN
       /\ ~Known(a, LastTx.id)
       /\ \E id \in DOMAIN a.transactions : a.transactions[id] = <<1, FALSE>>
       /\ a.available = 0
       /\ a.held = 0
       /\ ledger[LastTx.client] = 0


\* C12: every amount applied by a Deposit or a Withdrawal is >= 0, so an
\* applied Deposit never lowers available and an applied Withdrawal never
\* raises it.
C12_AmountsNonNegative ==
    [][ReadsOk =>
          LET t == last'[2]
              before == Found(t)
              after == accounts'[t.client]
          IN  /\ DepositApplied(before, t) =>
                    /\ Unwrap(t.amount) >= 0
                    /\ after.available >= before.available
              /\ WithdrawalApplied(before, t) =>
                    /\ Unwrap(t.amount) >= 0
                    /\ after.available <= before.available]_vars


\* the amount a "{:.4}" field stands for, in units of 10^-4
Parse4(f) == (IF f[1] THEN -1 ELSE 1) * (f[2] * Scale + f[3])

\* C13: the report has exactly one line for every client named by a row that
\* deserialized and no other line; the line of a client carries the final
\* available, held and locked of its account, and its total is available +
\* held.
C13_FinalReport ==
    pc = "done" =>
        /\ Len(output) = Cardinality(seen)
        /\ OutputClients = seen
        /\ \A i \in DOMAIN output :
              LET line == output[i]
                  data == accounts[line[1]]
              IN  /\ Parse4(line[2]) = data.available
                  /\ Parse4(line[3]) = data.held
                  /\ Parse4(line[4]) = data.available + data.held
                  /\ Parse4(line[4]) = Parse4(line[2]) + Parse4(line[3])
                  /\ line[5] = data.locked

\* the report has the lines of two clients, client 2 first; one account has
\* a negative balance, the other holds a disputed deposit
C13_Witness ==
    /\ pc = "done"
    /\ Len(output) = 2
    /\ output[1][1] = 2
    /\ \E i \in DOMAIN output :
          output[i][2] = <<TRUE, 0, 1>> /\ output[i][4] = <<TRUE, 0, 1>>
    /\ \E i \in DOMAIN output :
          /\ output[i][2] = <<FALSE, 0, 0>>
          /\ output[i][3] = <<FALSE, 0, 1>>
          /\ output[i][4] = <<FALSE, 0, 1>>
          /\ ~output[i][5]


\* C14: every run over a finite stream reaches the end of the report; no
\* undecodable row, no failed precondition and no locked account stops it.
C14_RunsToCompletion == <>(pc = "done")

\* a run whose four rows held an undecodable one and a row for a locked
\* account has printed its report
C14_Witness ==
    /\ pc = "done"
    /\ count = MaxRecords
    /\ last = <<"Err">>
    /\ \E c \in DOMAIN accounts : accounts[c].locked /\ chargebacks[c] = 1
    /\ Len(output) = 1


\* C15: on an account that is not locked, a Deposit with an amount adds the
\* amount to available, sets the log entry of its tx id to (amount, FALSE)
\* whatever entry was there, and leaves held and locked as they are; when the
\* replaced entry was under dispute, a Resolve or a Chargeback of that tx id
\* right after the Deposit changes nothing, so the old amount stays in held.
C15_DepositReplacesEntry ==
    Reading => \A t \in RowsOf({"deposit"}) :
        (IsSome(t.amount) /\ ~Found(t).locked) =>
            /\ ApplyRecord(accounts, t)[t.client] =
                  [Found(t) EXCEPT
                      !.available = @ + Unwrap(t.amount),
                      !.transactions = [id \in DOMAIN @ \cup {t.id} |->
                          IF id = t.id THEN <<Unwrap(t.amount), FALSE>> ELSE @[id]]]
            /\ OpenDispute(Found(t), t.id) =>
                  \A kind \in {"resolve", "chargeback"} :
                      ApplyRecord(ApplyRecord(accounts, t), Follow(kind, t))
                          = ApplyRecord(accounts, t)

\* a deposit of 1 was disputed and then replaced by a Deposit under the same
\* tx id: held keeps the 1 although no entry is under dispute
C15_Witness ==
    /\ count = 3
    /\ LastIs("deposit")
    /\ LastTx.amount = Some(1)
    /\ LET a == accounts[LastTx.client] IN
       /\ DOMAIN a.transactions = {LastTx.id}
       /\ a.transactions[LastTx.id] = <<1, FALSE>>
       /\ a.held = 1
       /\ a.available = 1
       /\ ~a.locked


RECURSIVE DisputedIn(_, _)
DisputedIn(log, ids) ==
    IF ids = {} THEN 0
    ELSE LET id == CHOOSE x \in ids : TRUE IN
         (IF log[id][2] THEN log[id][1] ELSE 0) + DisputedIn(log, ids \ {id})

DisputedSum(account) == DisputedIn(account.transactions, DOMAIN account.transactions)

C18_LockIsOneChargeback ==
    /\ \A c \in Clients :
          /\ chargebacks[c] <= 1
          /\ (c \in DOMAIN accounts /\ accounts[c].locked) <=> chargebacks[c] = 1
    /\ Reading => \A t \in RowsOf({"chargeback"}) :
          ChargebackApplied(Found(t), t) =>
              /\ ApplyRecord(accounts, t)[t.client].locked
              /\ ApplyRecord(accounts, t)[t.client].held
                    = Found(t).held - Found(t).transactions[t.id][1]
              /\ DisputedSum(ApplyRecord(accounts, t)[t.client])
                    = DisputedSum(Found(t)) - Found(t).transactions[t.id][1]
              /\ \A r \in OffChainTransaction :
                    r.client = t.client =>
                        ApplyRecord(ApplyRecord(accounts, t), r) = ApplyRecord(accounts, t)

\* a deposit was disputed and charged back, and a further Dispute was read for
\* the locked account
C18_Witness ==
    /\ count = 4
    /\ LastIs("dispute")
    /\ chargebacks[LastTx.client] = 1
    /\ accounts[LastTx.client].locked
    /\ accounts[LastTx.client].held = 0
    /\ \A c \in Clients \ {LastTx.client} : chargebacks[c] = 0


C20_CrossClientCommute ==
    /\ accounts = ownRows
    /\ (Reading /\ count + 2 <= MaxRecords) =>
          \A t1, t2 \in OffChainTransaction :
              t1.client < t2.client =>
                  ApplyRecord(ApplyRecord(accounts, t1), t2)
                      = ApplyRecord(ApplyRecord(accounts, t2), t1)

\* rows of two clients were read alternately and changed both accounts
C20_Witness ==
    /\ count = 4
    /\ LastIs("dispute")
    /\ LastTx.client = 1
    /\ \A c \in Clients :
          /\ c \in DOMAIN accounts
          /\ accounts[c].held = 1
          /\ accounts[c].available = 0

====
